---- MODULE Spec2Model ----
(***************************************************************************)
(* Model of the upload endpoint of the intake service (the upsert          *)
(* revision, src/server.js lines 234-472): one request handler whose       *)
(* awaits are the interleaving points of concurrent requests, the three    *)
(* Airtable tables it reads and writes, and the two email transports.      *)
(* Text is modelled as sequences of one-character strings, so trimming,    *)
(* case folding, splitting and the record-id test are computed.            *)
(***************************************************************************)
EXTENDS Naturals, Sequences, FiniteSets, TLC

\* ---------------------------------------------------------------- bounds
\* Requests that may overlap in the concurrent specification.
NumReq == 2
\* Requests served strictly one after the other in the sequential one.
NumSeqReq == 2
\* Requests of the specification that draws the two directories.
NumDirReq == 1
\* Requests of the specification with fair scheduling.
NumLiveReq == 1

\* ------------------------------------------------------------------ text
UpperChars == {"A", "B", "K", "M"}
LowerChars == {"a", "b", "m", "r", "e", "c", "u", "x", "n", "k", "d", "o"}
DigitChars == {"0", "1", "2", "3", "4", "5", "6", "7", "8", "9"}
\* \w of the regular expressions: letters, digits and the underscore.
WordChars == UpperChars \cup LowerChars \cup DigitChars \cup {"_"}
\* [0-9A-Za-z] of the record-id test.
AlnumChars == UpperChars \cup LowerChars \cup DigitChars
SpaceChars == {" "}

LowerChar(c) ==
  CASE c = "A" -> "a"
    [] c = "B" -> "b"
    [] c = "K" -> "k"
    [] c = "M" -> "m"
    [] OTHER -> c

\* LOWER() of the Airtable formula language, String.prototype.toLowerCase.
Lower(s) == [i \in 1..Len(s) |-> LowerChar(s[i])]

RECURSIVE TrimLeft(_)
TrimLeft(s) ==
  IF s # <<>> /\ Head(s) \in SpaceChars THEN TrimLeft(Tail(s)) ELSE s

RECURSIVE TrimRight(_)
TrimRight(s) ==
  IF s # <<>> /\ s[Len(s)] \in SpaceChars
  THEN TrimRight(SubSeq(s, 1, Len(s) - 1))
  ELSE s

\* String.prototype.trim
Trim(s) == TrimLeft(TrimRight(s))

\* String.prototype.split(','): always at least one piece.
RECURSIVE SplitComma(_, _, _)
SplitComma(s, cur, acc) ==
  IF s = <<>> THEN Append(acc, cur)
  ELSE IF Head(s) = "," THEN SplitComma(Tail(s), <<>>, Append(acc, cur))
  ELSE SplitComma(Tail(s), Append(cur, Head(s)), acc)

Split(s) == SplitComma(s, <<>>, <<>>)

\* Array.prototype.join / ARRAYJOIN with separator sep.
RECURSIVE Join(_, _)
Join(ss, sep) ==
  IF ss = <<>> THEN <<>>
  ELSE IF Len(ss) = 1 THEN ss[1]
  ELSE ss[1] \o sep \o Join(Tail(ss), sep)

\* FIND(needle, hay) > 0 of the Airtable formula language.
Contains(hay, needle) ==
  \E i \in 1..(Len(hay) + 1 - Len(needle)) :
    SubSeq(hay, i, i + Len(needle) - 1) = needle

\* [...new Set(xs)]: first occurrences, in order.
RECURSIVE Dedupe(_, _)
Dedupe(xs, acc) ==
  IF xs = <<>> THEN acc
  ELSE IF \E i \in 1..Len(acc) : acc[i] = Head(xs)
       THEN Dedupe(Tail(xs), acc)
       ELSE Dedupe(Tail(xs), Append(acc, Head(xs)))

RECURSIVE Flatten(_)
Flatten(xss) == IF xss = <<>> THEN <<>> ELSE Head(xss) \o Flatten(Tail(xss))

\* Characters safeName keeps: [\w.\-()+ ].
SafeChars == WordChars \cup {".", "-", "(", ")", "+", " "}

\* name.replace(/[^\w.\-()+ ]+/g, '_'): each run of other characters
\* becomes one underscore.
RECURSIVE safeNameFrom(_, _)
safeNameFrom(s, inRun) ==
  IF s = <<>> THEN <<>>
  ELSE IF Head(s) \in SafeChars THEN <<Head(s)>> \o safeNameFrom(Tail(s), FALSE)
  ELSE IF inRun THEN safeNameFrom(Tail(s), TRUE)
  ELSE <<"_">> \o safeNameFrom(Tail(s), TRUE)

safeName(name) == safeNameFrom(name, FALSE)

\* Number of alphanumerics after "rec" in a record id.
RecIdLen == 14
RecPrefix == <<"r", "e", "c">>

\* /^rec[0-9A-Za-z]{14}$/.test(s)
IsRecordId(s) ==
  /\ Len(s) = Len(RecPrefix) + RecIdLen
  /\ SubSeq(s, 1, Len(RecPrefix)) = RecPrefix
  /\ \A i \in (Len(RecPrefix) + 1)..Len(s) : s[i] \in AlnumChars

DigitOf(k) ==
  CASE k = 0 -> "0" [] k = 1 -> "1" [] k = 2 -> "2" [] k = 3 -> "3"
    [] k = 4 -> "4" [] k = 5 -> "5" [] k = 6 -> "6" [] k = 7 -> "7"
    [] k = 8 -> "8" [] OTHER -> "9"

\* The id the store assigns to the k-th record of the Classes table.
ClassIdOf(k) ==
  RecPrefix \o [i \in 1..(RecIdLen - 1) |-> "0"] \o <<DigitOf(k)>>


\* ------------------------------------------------------- request inputs
Null == <<>>
NoFile == [originalname |-> <<>>, mimetype |-> "none", size |-> 0]

\* limits.fileSize of the multer upload: 20 MiB.
FileSizeLimit == 20 * 1024 * 1024

AllowedMimeTypes ==
  { "application/pdf",
    "application/vnd.openxmlformats-officedocument.wordprocessingml.document",
    "application/msword" }

\* multer's fileFilter and size limit: TRUE when the file reaches the handler.
fileFilter(file) ==
  file.mimetype \in AllowedMimeTypes /\ file.size <= FileSizeLimit

PdfFile ==
  [originalname |-> <<"d", "&", "&", "1">>, mimetype |-> "application/pdf", size |-> 1]

\* Requests that pass multer and the handler's validation.
ValidInputs ==
  [ submitterEmail : { <<"a">>, <<"A">>, <<"b">> },
    classOfBusiness : { <<>>, <<" ", "M">>, <<"k">>, ClassIdOf(1) },
    moreInfo : { <<>>, <<"n">> },
    file : { PdfFile } ]

\* Requests rejected before the first external call: no identity, no file,
\* a content type off the allow-list, a file over the size limit.
InvalidInputs ==
  { [submitterEmail |-> <<>>, classOfBusiness |-> <<>>, moreInfo |-> <<>>, file |-> PdfFile],
    [submitterEmail |-> <<"a">>, classOfBusiness |-> <<>>, moreInfo |-> <<>>, file |-> NoFile],
    [submitterEmail |-> <<"a">>, classOfBusiness |-> <<>>, moreInfo |-> <<>>,
     file |-> [originalname |-> <<"x">>, mimetype |-> "image/png", size |-> 1]],
    [submitterEmail |-> <<>>, classOfBusiness |-> <<>>, moreInfo |-> <<>>,
     file |-> [originalname |-> <<"x">>, mimetype |-> "image/png", size |-> 1]],
    [submitterEmail |-> <<"a">>, classOfBusiness |-> <<>>, moreInfo |-> <<>>,
     file |-> [originalname |-> <<"x">>, mimetype |-> "application/pdf",
               size |-> FileSizeLimit + 1]] }

RequestInputs == ValidInputs \cup InvalidInputs

\* The requests the overlapping specification draws from: the identities
\* in both letter cases, a class left to Table A or typed, in either letter
\* case, and not yet in the Classes table.
OverlapInputs ==
  [ submitterEmail : { <<"a">>, <<"A">>, <<"b">> },
    classOfBusiness : { <<>>, <<"k">>, <<"K">> },
    moreInfo : { <<"n">> },
    file : { PdfFile } ]

\* The requests the directory specification draws from: a class left out,
\* blank, padded, typed and new, or given as a record id.
DirInputs ==
  [ submitterEmail : { <<"a">>, <<"b">> },
    classOfBusiness : { <<>>, <<" ">>, <<" ", "M">>, <<"k">>, ClassIdOf(1) },
    moreInfo : { <<"n">> },
    file : { PdfFile } ]

\* ------------------------------------------------------- configuration
\* process.env as the module reads it at start-up.  requireEnv exits the
\* process unless SMTP_USER and SMTP_PASS are set when BREVO_API_KEY is not.
Override == <<"o">>
Configs ==
  { c \in [ BREVO_API_KEY : BOOLEAN,
            SMTP_CREDS : BOOLEAN,
            OVERRIDE_NOTIFICATION_EMAIL : {Null, Override},
            AIRTABLE_APPLICANTS_TABLE_ID : BOOLEAN,
            AIRTABLE_UNDERWRITERS_TABLE_ID : BOOLEAN ] :
      c.BREVO_API_KEY \/ c.SMTP_CREDS }

\* The configurations of the overlapping specification: both tables
\* configured, no override, either transport.
OverlapConfigs ==
  { c \in Configs :
      /\ c.SMTP_CREDS
      /\ c.OVERRIDE_NOTIFICATION_EMAIL = Null
      /\ c.AIRTABLE_APPLICANTS_TABLE_ID
      /\ c.AIRTABLE_UNDERWRITERS_TABLE_ID }

\* Table A (Applicants): read-only directory from identity to default class.
ApplicantsTable ==
  << [Email |-> <<"A">>, Class |-> <<"m", " ">>] >>

\* Table B (Underwriters): class cell values and the recipient field, which
\* is a multi-value list or one comma-separated string.
UnderwritersTable ==
  << [class |-> << ClassIdOf(1) >>,
      email |-> [list |-> TRUE, vals |-> << <<"u", "1">>, <<" ", "u", "2">> >>, val |-> <<>>]],
     [class |-> << <<"k">> >>,
      email |-> [list |-> FALSE, vals |-> <<>>,
                 val |-> <<" ", "u", "3", ",", " ", ",", "u", "3">>]] >>

\* Contents of Table A the directory specification draws from: no entry;
\* an entry in the other letter case; an entry without a class value; an
\* entry whose identity merely contains the submitter's, and one holding
\* a record id.
ApplicantDirectories ==
  { <<>>,
    ApplicantsTable,
    << [Email |-> <<"a">>, Class |-> <<>>] >>,
    << [Email |-> <<"a", "b">>, Class |-> <<"k">>],
       [Email |-> <<"b">>, Class |-> ClassIdOf(1)] >> }

\* Contents of Table B the directory specification draws from: no entry;
\* the table above; one class tagged both by reference and by name; and
\* entries that repeat an address, within a field and across entries, in
\* both letter cases, with padding, empty pieces and an empty field.
UnderwriterDirectories ==
  { <<>>,
    UnderwritersTable,
    << [class |-> << ClassIdOf(1) >>,
        email |-> [list |-> TRUE, vals |-> << <<"b">> >>, val |-> <<>>]],
       [class |-> << <<"m">> >>,
        email |-> [list |-> FALSE, vals |-> <<>>, val |-> <<"B">>]] >>,
    << [class |-> << ClassIdOf(1) >>,
        email |-> [list |-> TRUE,
                   vals |-> << <<"b">>, <<" ", "B">>, <<"b", " ">> >>,
                   val |-> <<>>]],
       [class |-> << ClassIdOf(2), ClassIdOf(1) >>,
        email |-> [list |-> FALSE, vals |-> <<>>,
                   val |-> <<"b", ",", "B", " ", ",", ",", "u", ",", "b">>]],
       [class |-> << ClassIdOf(1) >>,
        email |-> [list |-> FALSE, vals |-> <<>>, val |-> <<>>]] >> }

\* The Classes table as the service finds it: one category, "m", which
\* the first row of Table B is linked to.
ClassesTable == << [Name |-> <<"m">>] >>

\* `page[0] || null` when no record matched; store ids start at 1.
NoRecord == [id |-> 0, Email |-> <<>>, Class |-> <<>>, Notes |-> <<>>, Files |-> <<>>]
NoUrl == [uuid |-> 0, name |-> <<>>]

\* s.replace(/"/g, '\\"')
RECURSIVE escapeForAirtableFormulaDoubleQuotes(_)
escapeForAirtableFormulaDoubleQuotes(s) ==
  IF s = <<>> THEN <<>>
  ELSE IF Head(s) = "\"" THEN <<"\\", "\"">> \o escapeForAirtableFormulaDoubleQuotes(Tail(s))
  ELSE <<Head(s)>> \o escapeForAirtableFormulaDoubleQuotes(Tail(s))

\* The value the formula language gives the text between the double quotes
\* of a string literal: a backslash makes the next character literal.
RECURSIVE FormulaString(_)
FormulaString(s) ==
  IF s = <<>> THEN <<>>
  ELSE IF Head(s) = "\\" /\ Len(s) >= 2 THEN <<s[2]>> \o FormulaString(Tail(Tail(s)))
  ELSE <<Head(s)>> \o FormulaString(Tail(s))

\* Mutant of LowerEquals: the two sides are compared without LOWER().
LowerEqualsNoFolding(cell, value) ==
  cell = FormulaString(escapeForAirtableFormulaDoubleQuotes(value))

\* LOWER({field}) = LOWER("<escaped value>")
LowerEquals(cell, value) ==
  Lower(cell) = Lower(FormulaString(escapeForAirtableFormulaDoubleQuotes(value)))

\* The submissions table the overlapping specification starts from: the
\* record an earlier request of identity "a" left, with one attachment.
StoredBefore ==
  << [id |-> 1, Email |-> <<"a">>, Class |-> << ClassIdOf(1) >>, Notes |-> <<"n">>,
      Files |-> << [url |-> [uuid |-> 0, name |-> <<"d", "_", "0">>],
                    filename |-> <<"d", "&", "0">>] >>] >>

\* ---------------------------------------------------------------- state
VARIABLES
  cfg,          \* the configuration the process started with
  inputs,       \* the requests clients may send
  applicants,   \* Table A: the Applicant Directory, read only
  underwriters, \* Table B: the category-to-recipient directory, read only
  apps,       \* submissions table: sequence of records, id = position
  classes,    \* Classes table: sequence of records, id = ClassIdOf(position)
  req,        \* per request: position in the handler and its locals
  writeLog,   \* history: the successful submission writes, in order
  overlapped  \* history: a request arrived while another was in flight

vars == <<cfg, inputs, applicants, underwriters, apps, classes, req, writeLog,
          overlapped>>

Requests == DOMAIN req

\* const transporter = (!BREVO_API_KEY) ? nodemailer.createTransport(..) : null
transporter == ~cfg.BREVO_API_KEY

IdleRequest ==
  [ pc |-> "idle",
    submitterEmail |-> <<>>, classOfBusiness |-> <<>>, moreInfo |-> <<>>,
    file |-> NoFile,
    effectiveClass |-> <<>>,
    publicUrl |-> NoUrl,
    classRecordId |-> Null, classLink |-> <<>>, classDisplayName |-> <<>>,
    existing |-> NoRecord,
    uwRecords |-> <<>>,
    notifyList |-> <<>>,
    sends |-> <<>>,
    status |-> 0, message |-> "", responses |-> 0,
    calls |-> <<>>,
    failed |-> <<>>,
    caught |-> "",
    logged |-> <<>> ]

InitStores ==
  /\ classes = ClassesTable
  /\ writeLog = <<>>
  /\ overlapped = FALSE

Init ==
  /\ InitStores
  /\ cfg \in OverlapConfigs
  /\ applicants = ApplicantsTable
  /\ underwriters = UnderwritersTable
  /\ apps = StoredBefore
  /\ inputs = OverlapInputs
  /\ req = [r \in 1..NumReq |-> IdleRequest]

InitSeq ==
  /\ InitStores
  /\ cfg \in Configs
  /\ applicants = ApplicantsTable
  /\ underwriters = UnderwritersTable
  /\ apps = <<>>
  /\ inputs = RequestInputs
  /\ req = [r \in 1..NumSeqReq |-> IdleRequest]

InitLive ==
  /\ InitStores
  /\ cfg \in Configs
  /\ applicants = ApplicantsTable
  /\ underwriters = UnderwritersTable
  /\ apps = StoredBefore
  /\ inputs = RequestInputs
  /\ req = [r \in 1..NumLiveReq |-> IdleRequest]

InitDir ==
  /\ InitStores
  /\ cfg \in Configs
  /\ applicants \in ApplicantDirectories
  /\ underwriters \in UnderwriterDirectories
  /\ apps = <<>>
  /\ inputs = DirInputs
  /\ req = [r \in 1..NumDirReq |-> IdleRequest]


\* ------------------------------------------------------ handler pieces
\* History: the external calls the request issued, in order.
Log(q, call) == [q EXCEPT !.calls = Append(@, call)]

\* History: the awaited call the request issued last has rejected.
Rejected(q) == [q EXCEPT !.failed = Append(@, q.calls[Len(q.calls)])]

\* res.status(code).send(message): the request is answered.
Respond(q, code, message) ==
  [q EXCEPT !.pc = "responded", !.status = code, !.message = message,
            !.responses = @ + 1]

\* Mutant of ServerError: the catch logs the error and answers success.
ServerErrorSwallowed(q) == Respond(q, 200, "New record created and notifications sent.")

\* The handler's outer catch: console.error(err); res.status(500).
ServerError(q) == Respond(q, 500, "Server error")

\* Mutant of airtableFindOne: the filter compares without case folding.
airtableFindOneCaseSensitive(table, field, value) ==
  {i \in 1..Len(table) : table[i][field] = value}

\* airtableFindOne(table, `LOWER({field}) = LOWER("value")`): the positions
\* of the records the filter keeps; page[0] is one of them, or null.
airtableFindOne(table, field, value) ==
  {i \in 1..Len(table) : LowerEquals(table[i][field], value)}

\* let effectiveClass = (classOfBusiness || '').trim()
TrimmedClass(classOfBusiness) == Trim(classOfBusiness)

\* Mutant of AfterValidation: the record is reconciled without the upload.
AfterValidationNoUpload(q) ==
  LET e == TrimmedClass(q.classOfBusiness) IN
  [q EXCEPT !.effectiveClass = e,
            !.pc = IF e = <<>> /\ cfg.AIRTABLE_APPLICANTS_TABLE_ID
                   THEN "lookup" ELSE "findSubmission"]

\* Mutant of AfterValidation: Table A is asked whenever it is configured.
AfterValidationDirectoryFirst(q) ==
  LET e == TrimmedClass(q.classOfBusiness) IN
  [q EXCEPT !.effectiveClass = e,
            !.pc = IF cfg.AIRTABLE_APPLICANTS_TABLE_ID THEN "lookup" ELSE "upload"]

\* The code between the validation and the first await: the Applicants
\* lookup when the form gave no class and Table A is configured, else the
\* upload.
AfterValidation(q) ==
  LET e == TrimmedClass(q.classOfBusiness) IN
  [q EXCEPT !.effectiveClass = e,
            !.pc = IF e = <<>> /\ cfg.AIRTABLE_APPLICANTS_TABLE_ID
                   THEN "lookup" ELSE "upload"]

\* The synchronous head of the handler, after multer accepted the file.
Validate(q) ==
  IF q.submitterEmail = <<>> THEN Respond(q, 400, "Missing submitter email")
  ELSE IF q.file = NoFile THEN Respond(q, 400, "No file uploaded")
  ELSE AfterValidation(q)

\* No request is between its arrival and its handler's return.
Quiet == \A q \in Requests : req[q].pc \in {"idle", "done"}

\* upload.single('applicationFile'): a file the filter or the size limit
\* rejects is passed to next(err); no error handler is installed, so the
\* framework's default one answers 500 and the handler never runs.
\* Requests are numbered in their order of arrival.
Receive(r) ==
  /\ req[r].pc = "idle"
  /\ \A p \in Requests : p < r => req[p].pc # "idle"
  /\ \E in \in inputs :
       LET q == [req[r] EXCEPT !.submitterEmail = in.submitterEmail,
                               !.classOfBusiness = in.classOfBusiness,
                               !.moreInfo = in.moreInfo, !.file = in.file]
       IN req' = [req EXCEPT ![r] =
            IF in.file # NoFile /\ ~fileFilter(in.file)
            THEN Respond(q, 500, "Internal Server Error")
            ELSE Validate(q)]
  /\ overlapped' = (overlapped \/ ~Quiet)
  /\ UNCHANGED <<cfg, inputs, applicants, underwriters, apps, classes, writeLog>>

\* if (rec) { const v = rec.get(CLASS); if (v) effectiveClass = v.trim() }
ClassFromApplicant(q, rec) ==
  IF rec.Class # <<>> THEN [q EXCEPT !.effectiveClass = Trim(rec.Class)] ELSE q

\* Mutant of LookupApplicant: a submitter Table A does not know is an error.
LookupApplicantUnknownIsError(r) ==
  /\ req[r].pc = "lookup"
  /\ LET q == Log(req[r], "lookup")
         m == airtableFindOne(applicants, "Email", q.submitterEmail)
     IN \/ req' = [req EXCEPT ![r] = ServerError(Rejected(q))]
        \/ /\ m = {}
           /\ req' = [req EXCEPT ![r] = ServerError(q)]
        \/ \E i \in m :
             req' = [req EXCEPT ![r] =
                      [ClassFromApplicant(q, applicants[i]) EXCEPT !.pc = "upload"]]
  /\ UNCHANGED <<cfg, inputs, applicants, underwriters, overlapped, apps, classes, writeLog>>

\* airtableFindOne(AIRTABLE_APPLICANTS_TABLE_ID, LOWER({Email}) = LOWER("..."))
LookupApplicant(r) ==
  /\ req[r].pc = "lookup"
  /\ LET q == Log(req[r], "lookup")
         m == airtableFindOne(applicants, "Email", q.submitterEmail)
     IN \/ req' = [req EXCEPT ![r] = ServerError(Rejected(q))]
        \/ /\ m = {}
           /\ req' = [req EXCEPT ![r] = [q EXCEPT !.pc = "upload"]]
        \/ \E i \in m :
             req' = [req EXCEPT ![r] =
                      [ClassFromApplicant(q, applicants[i]) EXCEPT !.pc = "upload"]]
  /\ UNCHANGED <<cfg, inputs, applicants, underwriters, overlapped, apps, classes, writeLog>>

\* Mutant of ResolveLinkedClass: no record-id test, every text is looked up
\* by name (as the revision before the upsert did).
ResolveLinkedClassNoIdTest(q) ==
  LET d == Trim(q.effectiveClass) IN
  IF q.effectiveClass = <<>>
  THEN [q EXCEPT !.classDisplayName = d, !.pc = "findSubmission"]
  ELSE [q EXCEPT !.classDisplayName = d, !.pc = "classFind"]

\* Lines 408-414: the linked class, up to the next await.
ResolveLinkedClass(q) ==
  LET d == Trim(q.effectiveClass) IN
  IF q.effectiveClass = <<>>
  THEN [q EXCEPT !.classDisplayName = d, !.pc = "findSubmission"]
  ELSE IF IsRecordId(q.effectiveClass)
  THEN [q EXCEPT !.classDisplayName = d,
                 !.classRecordId = q.effectiveClass,
                 !.classLink = <<q.effectiveClass>>,
                 !.pc = "classFetch"]
  ELSE [q EXCEPT !.classDisplayName = d, !.pc = "classFind"]

\* await s3.send(new PutObjectCommand(..)); the key holds a fresh UUID.
Upload(r) ==
  /\ req[r].pc = "upload"
  /\ LET q == Log(req[r], "upload")
         url == [uuid |-> r, name |-> safeName(q.file.originalname)]
     IN \/ req' = [req EXCEPT ![r] = ServerError(Rejected(q))]
        \/ req' = [req EXCEPT ![r] = ResolveLinkedClass([q EXCEPT !.publicUrl = url])]
  /\ UNCHANGED <<cfg, inputs, applicants, underwriters, overlapped, apps, classes, writeLog>>

\* getOrCreateClassIdByName, first await: LOWER({Name}) = LOWER("name").
ClassFind(r) ==
  /\ req[r].pc = "classFind"
  /\ LET q == Log(req[r], "classFind")
         m == airtableFindOne(classes, "Name", q.effectiveClass)
     IN \/ req' = [req EXCEPT ![r] = ServerError(Rejected(q))]
        \/ /\ m = {}
           /\ req' = [req EXCEPT ![r] = [q EXCEPT !.pc = "classCreate"]]
        \/ \E i \in m :
             req' = [req EXCEPT ![r] =
                      [q EXCEPT !.classRecordId = ClassIdOf(i),
                                !.classLink = <<ClassIdOf(i)>>,
                                !.pc = "classFetch"]]
  /\ UNCHANGED <<cfg, inputs, applicants, underwriters, overlapped, apps, classes, writeLog>>

\* getOrCreateClassIdByName, second await: create([{fields: {Name: name}}]).
ClassCreate(r) ==
  /\ req[r].pc = "classCreate"
  /\ LET q == Log(req[r], "classCreate")
         id == ClassIdOf(Len(classes) + 1)
     IN \/ /\ req' = [req EXCEPT ![r] = ServerError(Rejected(q))]
           /\ UNCHANGED classes
        \/ /\ classes' = Append(classes, [Name |-> q.effectiveClass])
           /\ req' = [req EXCEPT ![r] =
                       [q EXCEPT !.classRecordId = id, !.classLink = <<id>>,
                                 !.pc = "classFetch"]]
  /\ UNCHANGED <<cfg, inputs, applicants, underwriters, overlapped, apps, writeLog>>

\* try { clsRec = await base(CLASS).find(id); n = clsRec.get('Name');
\*       if (n) classDisplayName = n } catch (e) { console.error(..) }
ClassFetch(r) ==
  /\ req[r].pc = "classFetch"
  /\ LET q == Log(req[r], "classFetch")
         m == {i \in 1..Len(classes) : ClassIdOf(i) = q.classRecordId}
     IN \/ req' = [req EXCEPT ![r] =
                    [Rejected(q) EXCEPT !.logged = Append(@, "Could not fetch class name"),
                              !.pc = "findSubmission"]]
        \/ \E i \in m :
             req' = [req EXCEPT ![r] =
                      [q EXCEPT !.classDisplayName =
                                   IF classes[i].Name # <<>> THEN classes[i].Name ELSE @,
                                !.pc = "findSubmission"]]
  /\ UNCHANGED <<cfg, inputs, applicants, underwriters, overlapped, apps, classes, writeLog>>

\* findSubmissionByEmail: LOWER({Email}) = LOWER("email"), maxRecords 1.
\* The record is the snapshot the merge later reads.
findSubmissionByEmail(r) ==
  /\ req[r].pc = "findSubmission"
  /\ LET q == Log(req[r], "findSubmission")
         m == airtableFindOne(apps, "Email", q.submitterEmail)
     IN \/ req' = [req EXCEPT ![r] = ServerError(Rejected(q))]
        \/ /\ m = {}
           /\ req' = [req EXCEPT ![r] = [q EXCEPT !.existing = NoRecord, !.pc = "write"]]
        \/ \E i \in m :
             req' = [req EXCEPT ![r] = [q EXCEPT !.existing = apps[i], !.pc = "write"]]
  /\ UNCHANGED <<cfg, inputs, applicants, underwriters, overlapped, apps, classes, writeLog>>


\* ---------------------------------------------------------- the upsert
\* { url: publicUrl, filename: file.originalname }
Attachment(q) == [url |-> q.publicUrl, filename |-> q.file.originalname]

\* Mutant of newFiles: the upload replaces the stored attachments.
newFilesReplace(existingFiles, attachment) == <<attachment>>

\* const newFiles = [...existingFiles, { url, filename }]
newFiles(existingFiles, attachment) == existingFiles \o <<attachment>>

\* Mutant of mergedNotes: the new notes replace the stored ones.
mergedNotesOverwrite(existingNotes, moreInfo) == moreInfo

\* (existingNotes && moreInfo) ? `${existingNotes}\n${moreInfo}`
\*                             : (moreInfo || existingNotes || '')
mergedNotes(existingNotes, moreInfo) ==
  IF existingNotes # <<>> /\ moreInfo # <<>>
  THEN existingNotes \o <<"\n">> \o moreInfo
  ELSE IF moreInfo # <<>> THEN moreInfo ELSE existingNotes

\* Mutant of updateFields: the class is written even when none was resolved.
updateFieldsAlwaysClass(q) ==
  [Email |-> q.submitterEmail,
   Notes |-> mergedNotes(q.existing.Notes, q.moreInfo),
   Files |-> newFiles(q.existing.Files, Attachment(q)),
   Class |-> q.classLink]

\* updateFields = { Email, Notes, Files }, plus Class when classLink.length
updateFields(q) ==
  LET base == [Email |-> q.submitterEmail,
               Notes |-> mergedNotes(q.existing.Notes, q.moreInfo),
               Files |-> newFiles(q.existing.Files, Attachment(q))]
  IN IF q.classLink # <<>>
     THEN [Email |-> base.Email, Notes |-> base.Notes, Files |-> base.Files,
           Class |-> q.classLink]
     ELSE base

\* The fields of the record the create branch writes.
createFields(q) ==
  [Email |-> q.submitterEmail, Class |-> q.classLink,
   Notes |-> q.moreInfo, Files |-> <<Attachment(q)>>]

\* The store's update: the named fields are replaced, the others kept.
ApplyUpdate(rec, fields) ==
  [f \in DOMAIN rec |-> IF f \in DOMAIN fields THEN fields[f] ELSE rec[f]]

\* [...new Set(emails.map(e => e.trim()).filter(Boolean))] over
\* uwRecords.flatMap(r => Array.isArray(v) ? v : v.toString().split(','))
RecipientValues(rec) ==
  IF rec.email.list THEN rec.email.vals
  ELSE IF rec.email.val = <<>> THEN <<>>
  ELSE Split(rec.email.val)

\* Mutant of matchedRecipients: duplicates are removed before trimming.
matchedRecipientsDedupeFirst(uwRecords) ==
  LET emails == Flatten([i \in 1..Len(uwRecords) |-> RecipientValues(uwRecords[i])])
      distinct == Dedupe(emails, <<>>)
      trimmed == [i \in 1..Len(distinct) |-> Trim(distinct[i])]
  IN SelectSeq(trimmed, LAMBDA e : e # <<>>)

matchedRecipients(uwRecords) ==
  LET emails == Flatten([i \in 1..Len(uwRecords) |-> RecipientValues(uwRecords[i])])
      trimmed == [i \in 1..Len(emails) |-> Trim(emails[i])]
  IN Dedupe(SelectSeq(trimmed, LAMBDA e : e # <<>>), <<>>)

\* FIND("<id>", ARRAYJOIN({class})) > 0
MatchesByRef(rec, classRecordId) == Contains(Join(rec.class, <<",">>), classRecordId)

\* {class} = "<escaped display name>"
MatchesByName(rec, classDisplayName) ==
  Join(rec.class, <<",", " ">>) =
    FormulaString(escapeForAirtableFormulaDoubleQuotes(classDisplayName))

\* airtableFindAll(UW, formula): the records of Table B the filter keeps,
\* in table order; byRef picks the FIND formula, else the equality.
airtableFindAll(byRef, value) ==
  SelectSeq(underwriters,
            LAMBDA rec : IF byRef THEN MatchesByRef(rec, value)
                         ELSE MatchesByName(rec, value))

\* Mutant of FinalResponse: the message always says created.
FinalResponseAlwaysCreated(q) ==
  Respond(q, 200, "New record created and notifications sent.")

\* res.status(200).send(existing ? 'Existing record updated ..' : 'New ..')
FinalResponse(q) ==
  Respond(q, 200,
          IF q.existing # NoRecord
          THEN "Existing record updated and notifications sent."
          ELSE "New record created and notifications sent.")

RECURSIVE LogAll(_, _, _)
LogAll(q, call, n) == IF n = 0 THEN q ELSE LogAll(Log(q, call), call, n - 1)

\* Promise.all(list.map(to => transporter.sendMail({..}))): one send per
\* recipient, all issued before any settles.
SmtpSendAll(q) ==
  [LogAll(q, "smtp", Len(q.notifyList)) EXCEPT
     !.sends = [i \in 1..Len(q.notifyList) |-> "pending"],
     !.pc = "smtp"]

\* Mutant of NotificationError: the error reaches the outer catch.
NotificationErrorIs500(q, e) ==
  ServerError([q EXCEPT !.logged = Append(@, "Notification error"),
                        !.caught = e])

\* The handler's inner catch around sendEmails: the error is logged and the
\* request goes on to its response.
NotificationError(q, e) ==
  FinalResponse([q EXCEPT !.logged = Append(@, "Notification error"),
                          !.caught = e])

\* sendEmails, up to its first await.
sendEmails(q) ==
  IF cfg.BREVO_API_KEY THEN [q EXCEPT !.pc = "brevo"] ELSE SmtpSendAll(q)

\* The errors sendEmails can reject with: the one sendEmailBrevo threw
\* (a rejected fetch or `Brevo API failed: ..`), and a rejected sendMail.
BrevoError == "Brevo API failed"
SmtpError == "sendMail failed"

\* Mutant of BrevoFailed: the primary send is tried again.
BrevoFailedRetries(q) ==
  LET l == [q EXCEPT !.logged = Append(@, "Brevo send failed")] IN
  IF transporter THEN SmtpSendAll(l) ELSE [l EXCEPT !.pc = "brevo"]

\* sendEmails' catch of a failed sendEmailBrevo: the fallback when a
\* transporter exists, else `throw err`, which the handler's catch receives.
BrevoFailed(q) ==
  LET l == [q EXCEPT !.logged = Append(@, "Brevo send failed")] IN
  IF transporter THEN SmtpSendAll(l) ELSE NotificationError(l, BrevoError)

\* Mutant of Notify: the override is added to the computed list.
NotifyOverrideAdded(q, matched) ==
  LET list == IF cfg.OVERRIDE_NOTIFICATION_EMAIL # Null
              THEN <<cfg.OVERRIDE_NOTIFICATION_EMAIL>> \o matched ELSE matched
      n == [q EXCEPT !.notifyList = list]
  IN IF list # <<>> THEN sendEmails(n) ELSE FinalResponse(n)

\* Mutant of Notify: sendEmails is called whatever the list holds.
NotifySendsAnyway(q, matched) ==
  LET list == IF cfg.OVERRIDE_NOTIFICATION_EMAIL # Null
              THEN <<cfg.OVERRIDE_NOTIFICATION_EMAIL>> ELSE matched
  IN sendEmails([q EXCEPT !.notifyList = list])

\* notifyList = OVERRIDE ? [OVERRIDE] : matchedRecipients;
\* try { if (notifyList.length) await sendEmails(..) } catch ..; respond.
Notify(q, matched) ==
  LET list == IF cfg.OVERRIDE_NOTIFICATION_EMAIL # Null
              THEN <<cfg.OVERRIDE_NOTIFICATION_EMAIL>> ELSE matched
      n == [q EXCEPT !.notifyList = list]
  IN IF list # <<>> THEN sendEmails(n) ELSE FinalResponse(n)

\* Mutant of AfterWrite: Table B is queried even when no class is known.
AfterWriteQueriesAnyway(q) ==
  IF cfg.AIRTABLE_UNDERWRITERS_TABLE_ID
  THEN IF q.classRecordId # Null THEN [q EXCEPT !.pc = "uwByRef"]
       ELSE [q EXCEPT !.pc = "uwByName"]
  ELSE Notify(q, <<>>)

\* Mutant of AfterWrite: the display name is queried before the reference.
AfterWriteNameFirst(q) ==
  IF (q.classRecordId # Null \/ q.classDisplayName # <<>>)
     /\ cfg.AIRTABLE_UNDERWRITERS_TABLE_ID
  THEN IF q.classDisplayName # <<>> THEN [q EXCEPT !.pc = "uwByName"]
       ELSE [q EXCEPT !.pc = "uwByRef"]
  ELSE Notify(q, <<>>)

\* Lines 441-447, up to the next await.
AfterWrite(q) ==
  IF (q.classRecordId # Null \/ q.classDisplayName # <<>>)
     /\ cfg.AIRTABLE_UNDERWRITERS_TABLE_ID
  THEN IF q.classRecordId # Null THEN [q EXCEPT !.pc = "uwByRef"]
       ELSE [q EXCEPT !.pc = "uwByName"]
  ELSE Notify(q, <<>>)

\* Mutant of WriteFailed: the failure is swallowed and the request goes on.
WriteFailedGoesOn(q) == AfterWrite(q)

\* The catch that receives a failed create or update of the submission.
WriteFailed(q) == ServerError(q)

\* await base(APPS).update([{id: existing.id, fields: updateFields}]) or
\* await base(APPS).create([{fields: {..}}])
WriteRecord(r) ==
  /\ req[r].pc = "write"
  /\ LET old == req[r]
         q == Log(old, IF old.existing # NoRecord THEN "appUpdate" ELSE "appCreate")
     IN \/ /\ req' = [req EXCEPT ![r] = WriteFailed(Rejected(q))]
           /\ UNCHANGED <<apps, writeLog>>
        \/ /\ q.existing # NoRecord
           /\ apps' = [apps EXCEPT ![q.existing.id] = ApplyUpdate(@, updateFields(q))]
           /\ writeLog' = Append(writeLog,
                [request |-> r, id |-> q.existing.id, created |-> FALSE,
                 Email |-> q.submitterEmail, attachment |-> Attachment(q)])
           /\ req' = [req EXCEPT ![r] = AfterWrite(q)]
        \/ /\ q.existing = NoRecord
           /\ apps' = Append(apps, [id |-> Len(apps) + 1] @@ createFields(q))
           /\ writeLog' = Append(writeLog,
                [request |-> r, id |-> Len(apps) + 1, created |-> TRUE,
                 Email |-> q.submitterEmail, attachment |-> Attachment(q)])
           /\ req' = [req EXCEPT ![r] = AfterWrite(q)]
  /\ UNCHANGED <<cfg, inputs, applicants, underwriters, overlapped, classes>>

\* uwRecords = await airtableFindAll(UW, FIND(id, ARRAYJOIN({class})) > 0)
UwByRef(r) ==
  /\ req[r].pc = "uwByRef"
  /\ LET q == Log(req[r], "uwByRef")
         found == airtableFindAll(TRUE, q.classRecordId)
     IN \/ req' = [req EXCEPT ![r] = ServerError(Rejected(q))]
        \/ req' = [req EXCEPT ![r] =
                    IF found = <<>> /\ q.classDisplayName # <<>>
                    THEN [q EXCEPT !.pc = "uwByName"]
                    ELSE Notify([q EXCEPT !.uwRecords = found], matchedRecipients(found))]
  /\ UNCHANGED <<cfg, inputs, applicants, underwriters, overlapped, apps, classes, writeLog>>

\* uwRecords = await airtableFindAll(UW, {class} = "name")
UwByName(r) ==
  /\ req[r].pc = "uwByName"
  /\ LET q == Log(req[r], "uwByName")
         found == airtableFindAll(FALSE, q.classDisplayName)
     IN \/ req' = [req EXCEPT ![r] = ServerError(Rejected(q))]
        \/ req' = [req EXCEPT ![r] =
                    Notify([q EXCEPT !.uwRecords = found], matchedRecipients(found))]
  /\ UNCHANGED <<cfg, inputs, applicants, underwriters, overlapped, apps, classes, writeLog>>

\* sendEmailBrevo: one POST addressing every recipient; !res.ok or a
\* transport error throws.
sendEmailBrevo(r) ==
  /\ req[r].pc = "brevo"
  /\ LET q == Log(req[r], "brevo")
     IN \/ req' = [req EXCEPT ![r] = FinalResponse(q)]
        \/ req' = [req EXCEPT ![r] = BrevoFailed(q)]
  /\ UNCHANGED <<cfg, inputs, applicants, underwriters, overlapped, apps, classes, writeLog>>

\* One transporter.sendMail promise settles.  The sends outlive the await
\* that started them: a pending one settles whatever the handler does.
SettleSend(r) ==
  /\ \E i \in 1..Len(req[r].sends), outcome \in {"sent", "failed"} :
       /\ req[r].sends[i] = "pending"
       /\ req' = [req EXCEPT ![r].sends[i] = outcome]
  /\ UNCHANGED <<cfg, inputs, applicants, underwriters, overlapped, apps, classes, writeLog>>

\* The promise Promise.all returned is fulfilled once every send is, and
\* rejected as soon as one send is.
PromiseAllFulfilled(sends) == \A i \in 1..Len(sends) : sends[i] = "sent"
PromiseAllRejected(sends) == \E i \in 1..Len(sends) : sends[i] = "failed"

\* Mutant of SmtpResume: the handler resumes only when every send is sent.
SmtpResumeWhenAllSent(r) ==
  /\ req[r].pc = "smtp"
  /\ PromiseAllFulfilled(req[r].sends)
  /\ req' = [req EXCEPT ![r] = FinalResponse(req[r])]
  /\ UNCHANGED <<cfg, inputs, applicants, underwriters, overlapped, apps, classes, writeLog>>

\* The handler resumes after `await sendEmails(..)`.
SmtpResume(r) ==
  /\ req[r].pc = "smtp"
  /\ \/ /\ PromiseAllFulfilled(req[r].sends)
        /\ req' = [req EXCEPT ![r] = FinalResponse(req[r])]
     \/ /\ PromiseAllRejected(req[r].sends)
        /\ req' = [req EXCEPT ![r] = NotificationError(req[r], SmtpError)]
  /\ UNCHANGED <<cfg, inputs, applicants, underwriters, overlapped, apps, classes, writeLog>>

\* The async handler returns: its locals are released, and nothing awaits
\* the sends that are still pending.
Return(r) ==
  /\ req[r].pc = "responded"
  /\ req' = [req EXCEPT ![r] =
       [IdleRequest EXCEPT !.pc = "done", !.status = req[r].status,
                           !.message = req[r].message,
                           !.responses = req[r].responses]]
  /\ UNCHANGED <<cfg, inputs, applicants, underwriters, overlapped, apps, classes, writeLog>>

\* ------------------------------------------------------- specifications
Next ==
  \/ \E r \in Requests : Receive(r)
  \/ \E r \in Requests : LookupApplicant(r)
  \/ \E r \in Requests : Upload(r)
  \/ \E r \in Requests : ClassFind(r)
  \/ \E r \in Requests : ClassCreate(r)
  \/ \E r \in Requests : ClassFetch(r)
  \/ \E r \in Requests : findSubmissionByEmail(r)
  \/ \E r \in Requests : WriteRecord(r)
  \/ \E r \in Requests : UwByRef(r)
  \/ \E r \in Requests : UwByName(r)
  \/ \E r \in Requests : sendEmailBrevo(r)
  \/ \E r \in Requests : SettleSend(r)
  \/ \E r \in Requests : SmtpResume(r)
  \/ \E r \in Requests : Return(r)

\* Requests that overlap freely: every await is an interleaving point.
Spec == Init /\ [][Next]_vars

\* A request that arrives while no other is in flight.
ReceiveQuiet(r) == Quiet /\ Receive(r)

\* Requests served one after the other.
NextSeq ==
  \/ \E r \in Requests : ReceiveQuiet(r)
  \/ \E r \in Requests : LookupApplicant(r)
  \/ \E r \in Requests : Upload(r)
  \/ \E r \in Requests : ClassFind(r)
  \/ \E r \in Requests : ClassCreate(r)
  \/ \E r \in Requests : ClassFetch(r)
  \/ \E r \in Requests : findSubmissionByEmail(r)
  \/ \E r \in Requests : WriteRecord(r)
  \/ \E r \in Requests : UwByRef(r)
  \/ \E r \in Requests : UwByName(r)
  \/ \E r \in Requests : sendEmailBrevo(r)
  \/ \E r \in Requests : SettleSend(r)
  \/ \E r \in Requests : SmtpResume(r)
  \/ \E r \in Requests : Return(r)

SpecSeq == InitSeq /\ [][NextSeq]_vars

\* The steps of request r that follow its arrival: each is the handler
\* resuming after an awaited call returned or failed, or a send settling.
Handler(r) ==
  \/ LookupApplicant(r)
  \/ Upload(r)
  \/ ClassFind(r)
  \/ ClassCreate(r)
  \/ ClassFetch(r)
  \/ findSubmissionByEmail(r)
  \/ WriteRecord(r)
  \/ UwByRef(r)
  \/ UwByName(r)
  \/ sendEmailBrevo(r)
  \/ SettleSend(r)
  \/ SmtpResume(r)
  \/ Return(r)

\* Every collaborator call eventually returns or fails, and the event loop
\* then runs the continuation that awaits it.
Fairness == \A r \in 1..NumLiveReq : WF_vars(Handler(r))

\* A request against a store that holds a record, under fair scheduling.
SpecLive == InitLive /\ [][Next]_vars /\ Fairness

\* One request against every content of the two directories.
SpecDir == InitDir /\ [][NextSeq]_vars


\* ---------------------------------------------------------- properties
IsPrefix(s, t) == Len(s) <= Len(t) /\ SubSeq(t, 1, Len(s)) = s

Count(seq, S) == Cardinality({i \in 1..Len(seq) : seq[i] \in S})

\* The submission writes of this run that request r made.
WritesOf(r) == {i \in 1..Len(writeLog) : writeLog[i].request = r}

SubmissionWrites == {"appCreate", "appUpdate"}
StoreWrites == SubmissionWrites \cup {"classCreate"}
SendCalls == {"brevo", "smtp"}

\* The request has issued its create or update of the submission.
WriteAttempted(r) == Count(req[r].calls, SubmissionWrites) > 0

\* C1: under sequential service, of two writes for one identity (compared
\* case-insensitively) the record the later one wrote holds both
\* artifacts, the earlier one first.
C1_BothArtifactsInOrder ==
  \A i, j \in 1..Len(writeLog) :
    (i < j /\ Lower(writeLog[i].Email) = Lower(writeLog[j].Email)) =>
      LET files == apps[writeLog[j].id].Files IN
      \E a, b \in 1..Len(files) :
        /\ a < b
        /\ files[a] = writeLog[i].attachment
        /\ files[b] = writeLog[j].attachment

\* Two requests of one identity, in different letter case, have both
\* written, the second as a merge.
C1_Witness ==
  /\ Len(writeLog) = 2
  /\ writeLog[1].Email = <<"a">> /\ writeLog[2].Email = <<"A">>
  /\ writeLog[1].created /\ ~writeLog[2].created
  /\ Len(apps[writeLog[2].id].Files) = 2

\* C2: every step leaves each stored record's attachment sequence an
\* extension of the one it held before the step.
C2_AttachmentsOnlyGrow ==
  [][\A i \in 1..Len(apps) : IsPrefix(apps[i].Files, apps'[i].Files)]_vars

\* C3: the submissions table holds at most one record per identity,
\* identities compared case-insensitively.
C3_OneRecordPerIdentity ==
  \A i, j \in 1..Len(apps) :
    Lower(apps[i].Email) = Lower(apps[j].Email) => i = j

\* C4: a stored record's identity field never changes.
C4_IdentityNeverChanges ==
  [][\A i \in 1..Len(apps) : apps'[i].Email = apps[i].Email]_vars


\* The last submission write was an update made by request r.
UpdatedBy(r) ==
  /\ Len(writeLog') = Len(writeLog) + 1
  /\ writeLog'[Len(writeLog')].request = r
  /\ ~writeLog'[Len(writeLog')].created

\* C5: a merge whose request resolved no class reference leaves the stored
\* reference as it was; a merge that resolved one stores exactly that one.
C5_ClassKeptOnEmptyMerge ==
  [][\A r \in Requests :
       UpdatedBy(r) =>
         LET id == writeLog'[Len(writeLog')].id IN
         apps'[id].Class =
           IF req[r].classLink = <<>> THEN apps[id].Class ELSE req[r].classLink]_vars

\* A request that resolved no class has just merged into a record that
\* holds a class reference.
C5_Witness ==
  /\ writeLog # <<>>
  /\ LET e == writeLog[Len(writeLog)] IN
       /\ ~e.created
       /\ req[e.request].pc \notin {"idle", "done"}
       /\ req[e.request].effectiveClass = <<>>
       /\ req[e.request].classLink = <<>>
       /\ apps[e.id].Class # <<>>

\* C6 as claimed: a request that reconciles makes exactly one write against
\* the record store, Category creation included.
C6_ExactlyOneStoreWrite ==
  \A r \in Requests :
    WriteAttempted(r) => Count(req[r].calls, StoreWrites) = 1

\* C6 as amended: a request that reconciles makes exactly one write against
\* the submissions table, a create or an update and never both, and before
\* it at most one Category create, made only for a non-empty class text
\* that is not id-shaped.
C6_OneSubmissionWrite ==
  \A r \in Requests :
    /\ Count(req[r].calls, SubmissionWrites) <= 1
    /\ Count(req[r].calls, {"classCreate"}) <= 1
    /\ Count(req[r].calls, {"classCreate"}) = 1 =>
         req[r].effectiveClass # <<>> /\ ~IsRecordId(req[r].effectiveClass)
    /\ (WritesOf(r) # {} /\ req[r].pc # "done") =>
         /\ Cardinality(WritesOf(r)) = 1
         /\ Count(req[r].calls, SubmissionWrites) = 1
         /\ \A i, j \in 1..Len(req[r].calls) :
              (req[r].calls[i] = "classCreate" /\ req[r].calls[j] \in SubmissionWrites)
                => i < j

\* A request created a Category and then wrote its submission.
C6_Witness ==
  \E r \in Requests :
    /\ Count(req[r].calls, {"classCreate"}) = 1
    /\ WritesOf(r) # {}
    /\ req[r].pc # "done"

\* The stage of an external call in the order the specification gives:
\* upload, classification resolution, reconciliation, recipients, notification.
SpecStage(call) ==
  CASE call = "upload" -> 1
    [] call = "lookup" -> 2
    [] call \in {"classFind", "classCreate", "classFetch", "findSubmission",
                 "appCreate", "appUpdate"} -> 3
    [] call \in {"uwByRef", "uwByName"} -> 4
    [] OTHER -> 5

\* The stage of an external call with the directory lookup ahead of the upload.
CodeStage(call) ==
  CASE call = "lookup" -> 1
    [] call = "upload" -> 2
    [] OTHER -> SpecStage(call)

OrderedBy(calls, lookupFirst) ==
  \A i, j \in 1..Len(calls) :
    i < j => IF lookupFirst THEN CodeStage(calls[i]) <= CodeStage(calls[j])
             ELSE SpecStage(calls[i]) <= SpecStage(calls[j])

\* C7 as claimed: the upload is a request's first external call, and the
\* directory lookup, the reconciliation, the recipient resolution and the
\* notification follow in that order.
C7_UploadFirst ==
  \A r \in Requests :
    /\ OrderedBy(req[r].calls, FALSE)
    /\ req[r].calls # <<>> => req[r].calls[1] = "upload"

\* C7 as amended: the directory lookup, when made, comes first; then the
\* one upload; then reconciliation, recipient resolution and notification,
\* none of which is reached without the upload.
C7_LookupThenUpload ==
  \A r \in Requests :
    /\ OrderedBy(req[r].calls, TRUE)
    /\ Count(req[r].calls, {"lookup"}) <= 1
    /\ Count(req[r].calls, {"upload"}) <= 1
    /\ \A i \in 1..Len(req[r].calls) :
         CodeStage(req[r].calls[i]) >= 3 => Count(req[r].calls, {"upload"}) = 1

\* A request went through every stage, the directory lookup first.
C7_Witness ==
  \E r \in Requests :
    /\ Len(req[r].calls) >= 5
    /\ req[r].calls[1] = "lookup"
    /\ req[r].calls[2] = "upload"
    /\ Count(req[r].calls, SubmissionWrites) = 1
    /\ Count(req[r].calls, {"uwByRef"}) = 1
    /\ req[r].calls[Len(req[r].calls)] \in SendCalls

BrevoFailedFor(r) ==
  \E i \in 1..Len(req[r].logged) : req[r].logged[i] = "Brevo send failed"

\* C8: with an API key and SMTP credentials configured, a failed primary
\* send is followed by one SMTP attempt; without an API key the SMTP path
\* is the one used.
C8_FallbackAttempted ==
  \A r \in Requests :
    /\ (cfg.BREVO_API_KEY /\ cfg.SMTP_CREDS /\ BrevoFailedFor(r)) =>
         Count(req[r].calls, {"smtp"}) = Len(req[r].notifyList)
    /\ (~cfg.BREVO_API_KEY /\ req[r].notifyList # <<>>) =>
         /\ Count(req[r].calls, {"smtp"}) = Len(req[r].notifyList)
         /\ Count(req[r].calls, {"brevo"}) = 0

\* C9: a request is answered only after every per-recipient send settled.
C9_AnsweredAfterAllSettled ==
  \A r \in Requests :
    req[r].pc = "responded" =>
      \A i \in 1..Len(req[r].sends) : req[r].sends[i] # "pending"

\* The request's create or update of the submission failed.
WriteFailedFor(r) == WriteAttempted(r) /\ WritesOf(r) = {}

\* C10: a request whose record write failed sends no notification by
\* either transport and is answered 500, its artifact already uploaded.
C10_NoNotificationAfterFailedWrite ==
  \A r \in Requests :
    WriteFailedFor(r) =>
      /\ req[r].pc = "responded"
      /\ req[r].status = 500
      /\ Count(req[r].calls, SendCalls) = 0
      /\ req[r].sends = <<>>
      /\ req[r].publicUrl # NoUrl

\* A write failed for a request with a class that has recipients.
C10_Witness ==
  \E r \in Requests :
    /\ WriteFailedFor(r)
    /\ req[r].publicUrl # NoUrl
    /\ req[r].classLink # <<>>
    /\ req[r].status = 500


\* The request has computed its notification list: it is sending, or it
\* was answered after the recipient resolution.
ReachedNotification(r) ==
  \/ req[r].pc \in {"brevo", "smtp"}
  \/ req[r].pc = "responded" /\ req[r].status = 200

\* C11: with an override address configured, the notification list of a
\* request that reached the notification is the one-element list of the
\* override, whatever Table B holds and whatever class was resolved, and
\* no send addresses anything else.
C11_OverrideReplacesList ==
  \A r \in Requests :
    (cfg.OVERRIDE_NOTIFICATION_EMAIL # Null /\ ReachedNotification(r)) =>
      /\ req[r].notifyList = <<cfg.OVERRIDE_NOTIFICATION_EMAIL>>
      /\ Len(req[r].sends) <= 1
      /\ Count(req[r].calls, {"smtp"}) <= 1

\* With the override configured, the directory matched entries carrying
\* other recipients, and the list is still the override alone.
C11_Witness ==
  \E r \in Requests :
    /\ cfg.OVERRIDE_NOTIFICATION_EMAIL = Override
    /\ ReachedNotification(r)
    /\ req[r].uwRecords # <<>>
    /\ matchedRecipients(req[r].uwRecords) # <<>>
    /\ req[r].notifyList = <<Override>>

CategoryCalls == {"classFind", "classCreate", "classFetch"}
DirectoryQueries == {"uwByRef", "uwByName"}

\* The request has finished resolving its class: the upload was issued.
Resolved(r) == Count(req[r].calls, {"upload"}) = 1

\* C12: without an override, a request whose effective class is empty has
\* no class reference and no display name, queries neither the Classes
\* table nor Table B, computes the empty list, sends nothing, and is
\* answered 200 once its record is written; only a failed upload, query or
\* write makes its answer an error.
C12_EmptyClassIsTerminal ==
  \A r \in Requests :
    (cfg.OVERRIDE_NOTIFICATION_EMAIL = Null /\ Resolved(r)
       /\ req[r].effectiveClass = <<>>) =>
      /\ req[r].classRecordId = Null
      /\ req[r].classDisplayName = <<>>
      /\ req[r].notifyList = <<>>
      /\ Count(req[r].calls, CategoryCalls \cup DirectoryQueries) = 0
      /\ Count(req[r].calls, SendCalls) = 0
      /\ req[r].sends = <<>>
      /\ WritesOf(r) # {} => (req[r].pc = "responded" /\ req[r].status = 200)
      /\ req[r].pc = "responded" =>
           req[r].status = IF req[r].failed = <<>> THEN 200 ELSE 500

\* A request with no class at all wrote its record and was answered 200,
\* Table B being configured and not empty.
C12_Witness ==
  \E r \in Requests :
    /\ cfg.OVERRIDE_NOTIFICATION_EMAIL = Null
    /\ cfg.AIRTABLE_UNDERWRITERS_TABLE_ID
    /\ underwriters # <<>>
    /\ req[r].effectiveClass = <<>>
    /\ WritesOf(r) # {}
    /\ req[r].pc = "responded"
    /\ req[r].status = 200
    /\ req[r].notifyList = <<>>

\* The text p without its leading and trailing spaces, found by position.
Core(p) ==
  LET inked == {i \in 1..Len(p) : p[i] \notin SpaceChars} IN
  IF inked = {} THEN <<>>
  ELSE SubSeq(p, CHOOSE a \in inked : \A i \in inked : a <= i,
                 CHOOSE b \in inked : \A i \in inked : i <= b)

\* The maximal comma-free stretches of a comma-separated string.
Pieces(val) ==
  { SubSeq(val, ab[1], ab[2]) :
      ab \in { x \in (1..(Len(val) + 1)) \X (0..Len(val)) :
                 /\ x[1] <= x[2] + 1
                 /\ \A i \in x[1]..x[2] : val[i] # ","
                 /\ (x[1] = 1 \/ val[x[1] - 1] = ",")
                 /\ (x[2] = Len(val) \/ val[x[2] + 1] = ",") } }

\* The addresses a directory entry's recipient field holds.
Addresses(rec) ==
  LET raw == IF rec.email.list
             THEN {rec.email.vals[i] : i \in 1..Len(rec.email.vals)}
             ELSE Pieces(rec.email.val)
  IN {Core(p) : p \in raw} \ {<<>>}

\* C13: without an override, the list of a request that reached the
\* notification holds exactly the distinct non-empty trimmed addresses of
\* the matched entries' recipient fields, list-valued or comma-separated,
\* each once, addresses in different letter case being different.
C13_DistinctTrimmedAddresses ==
  \A r \in Requests :
    (cfg.OVERRIDE_NOTIFICATION_EMAIL = Null /\ ReachedNotification(r)) =>
      LET list == req[r].notifyList IN
      /\ {list[i] : i \in 1..Len(list)} =
           UNION {Addresses(req[r].uwRecords[i]) : i \in 1..Len(req[r].uwRecords)}
      /\ \A i, j \in 1..Len(list) : list[i] = list[j] => i = j

\* Three matched entries, one list-valued, one comma-separated and one
\* empty, repeat "b" and "B" with padding and hold an empty piece; the
\* list is b, B, u.
C13_Witness ==
  \E r \in Requests :
    /\ cfg.OVERRIDE_NOTIFICATION_EMAIL = Null
    /\ ReachedNotification(r)
    /\ Len(req[r].uwRecords) = 3
    /\ req[r].notifyList = << <<"b">>, <<"B">>, <<"u">> >>

\* The request passed multer and the handler's validation: it is in flight
\* and was not answered before its first external call.
Accepted(r) ==
  /\ req[r].pc \notin {"idle", "done"}
  /\ ~(req[r].pc = "responded" /\ req[r].calls = <<>>)

\* C14 as claimed: a non-empty explicit class is the effective class,
\* character for character, and Table A is not asked.
C14_ExplicitClassUnchanged ==
  \A r \in Requests :
    (Accepted(r) /\ req[r].classOfBusiness # <<>>) =>
      /\ req[r].effectiveClass = req[r].classOfBusiness
      /\ Count(req[r].calls, {"lookup"}) = 0

\* C14 as amended: an explicit class that is non-empty after trimming is
\* the effective class without its leading and trailing spaces, and Table A
\* is not asked, whatever it holds.
C14_ExplicitClassTrimmed ==
  \A r \in Requests :
    (Accepted(r) /\ Core(req[r].classOfBusiness) # <<>>) =>
      /\ req[r].effectiveClass = Core(req[r].classOfBusiness)
      /\ Count(req[r].calls, {"lookup"}) = 0
      /\ req[r].pc # "lookup"

\* A padded explicit class was resolved while Table A, configured, holds
\* another class for the submitter.
C14_Witness ==
  \E r \in Requests :
    /\ Resolved(r)
    /\ req[r].classOfBusiness = <<" ", "M">>
    /\ req[r].effectiveClass = <<"M">>
    /\ cfg.AIRTABLE_APPLICANTS_TABLE_ID
    /\ \E i \in 1..Len(applicants) :
         /\ Lower(applicants[i].Email) = Lower(req[r].submitterEmail)
         /\ applicants[i].Class # <<>>

\* Table A is not configured or holds no entry whose identity equals the
\* submitter's after case folding.
NoDirectoryEntry(r) ==
  \/ ~cfg.AIRTABLE_APPLICANTS_TABLE_ID
  \/ \A i \in 1..Len(applicants) :
       Lower(applicants[i].Email) # Lower(req[r].submitterEmail)

\* The calls of a request without a class, up to its record write.
UnclassifiedCalls ==
  (IF cfg.AIRTABLE_APPLICANTS_TABLE_ID THEN <<"lookup">> ELSE <<>>)
    \o <<"upload", "findSubmission">>

\* C15: an accepted request with no explicit class and no entry in Table A
\* (or no Table A) has the empty effective class; it is answered with an
\* error only when one of its external calls failed; and its calls are the
\* lookup (when configured), the upload, the find and the record write, in
\* that order, followed by nothing but sends.
C15_NoClassNoEntryGoesOn ==
  \A r \in Requests :
    (Accepted(r) /\ Core(req[r].classOfBusiness) = <<>> /\ NoDirectoryEntry(r)) =>
      LET calls == req[r].calls
          n == Len(req[r].calls)
          h == Len(UnclassifiedCalls)
      IN /\ req[r].effectiveClass = <<>>
         /\ IF n <= h THEN calls = SubSeq(UnclassifiedCalls, 1, n)
            ELSE /\ SubSeq(calls, 1, h) = UnclassifiedCalls
                 /\ calls[h + 1] \in SubmissionWrites
                 /\ \A i \in (h + 2)..n : calls[i] \in SendCalls
         /\ req[r].pc = "responded" =>
              /\ req[r].status = IF req[r].failed = <<>> THEN 200 ELSE 500
              /\ req[r].failed = <<>> => WritesOf(r) # {}

\* A request with a blank class, unknown to a Table A that is configured
\* and not empty, wrote its record and was answered 200.
C15_Witness ==
  \E r \in Requests :
    /\ cfg.AIRTABLE_APPLICANTS_TABLE_ID
    /\ applicants # <<>>
    /\ NoDirectoryEntry(r)
    /\ req[r].classOfBusiness = <<" ">>
    /\ Count(req[r].calls, {"lookup"}) = 1
    /\ WritesOf(r) # {}
    /\ req[r].pc = "responded"
    /\ req[r].status = 200

\* C16: a request without an identity or without a file is answered 4xx
\* before any external call, and a request whose file the allow-list or
\* the size limit rejects makes no external call either.
C16_RejectedBeforeAnyCall ==
  \A r \in Requests :
    req[r].pc \notin {"idle", "done"} =>
      /\ (req[r].submitterEmail = <<>> \/ req[r].file = NoFile) =>
           /\ req[r].pc = "responded"
           /\ req[r].status \in 400..499
           /\ req[r].calls = <<>>
      /\ (req[r].file # NoFile /\ ~fileFilter(req[r].file)) =>
           /\ req[r].pc = "responded"
           /\ req[r].calls = <<>>

\* The upload, the queries and the writes of the record store.
CollaboratorCalls ==
  {"lookup", "upload", "classFind", "classCreate", "classFetch",
   "findSubmission", "appCreate", "appUpdate", "uwByRef", "uwByName"}

FailedCalls(r) == {req[r].failed[i] : i \in 1..Len(req[r].failed)}

\* C17 as claimed: a request one of whose uploads, queries or writes failed
\* is never answered with success, and makes no call after the failure.
C17_EveryFailureAborts ==
  \A r \in Requests :
    FailedCalls(r) \cap CollaboratorCalls # {} =>
      /\ req[r].pc = "responded"
      /\ req[r].status \in 500..599
      /\ req[r].calls[Len(req[r].calls)] \in FailedCalls(r)

\* C17 as amended: a failed upload, query or write other than the fetch of
\* the Category's display name aborts the request with 500 at that call; a
\* failed fetch of the display name is logged, the request goes on with
\* the class as typed for a display name, and its reference unchanged.
C17_FailureAbortsButNameFetch ==
  \A r \in Requests :
    /\ FailedCalls(r) \cap (CollaboratorCalls \ {"classFetch"}) # {} =>
         /\ req[r].pc = "responded"
         /\ req[r].status = 500
         /\ req[r].calls[Len(req[r].calls)] \in FailedCalls(r) \ {"classFetch"}
         /\ Cardinality(FailedCalls(r) \ {"classFetch"}) = 1
    /\ "classFetch" \in FailedCalls(r) =>
         /\ \E i \in 1..Len(req[r].logged) :
              req[r].logged[i] = "Could not fetch class name"
         /\ req[r].classDisplayName = req[r].effectiveClass
         /\ req[r].classLink = <<req[r].classRecordId>>
         /\ FailedCalls(r) = {"classFetch"} =>
              (req[r].pc = "responded" => req[r].status = 200)

\* The fetch of the display name failed, the request went on, and its
\* record write failed and was answered 500.
C17_Witness ==
  \E r \in Requests :
    /\ req[r].failed = <<"classFetch", "appCreate">>
    /\ req[r].pc = "responded"
    /\ req[r].status = 500

\* C18: when a request merges into a stored record, the record's notes
\* become the stored notes, a line break and the request's notes when both
\* are non-empty, the stored notes when the request has none, and the
\* request's notes when none were stored; in every case the stored notes
\* are a prefix of the notes after the merge.
C18_NotesMerged ==
  [][\A r \in Requests :
       UpdatedBy(r) =>
         LET id == writeLog'[Len(writeLog')].id
             old == apps[id].Notes
             new == req[r].moreInfo
         IN /\ apps'[id].Notes =
                 IF old # <<>> /\ new # <<>> THEN old \o <<"\n">> \o new
                 ELSE IF new = <<>> THEN old
                 ELSE new
            /\ IsPrefix(old, apps'[id].Notes)]_vars

\* A request with notes merged into a record that held notes: the record
\* holds both, a line break between them.
C18_Witness ==
  /\ writeLog # <<>>
  /\ ~writeLog[Len(writeLog)].created
  /\ apps[writeLog[Len(writeLog)].id].Notes = <<"n", "\n", "n">>

\* The entries of Table B whose class field holds the request's reference.
TaggedByReference(r) ==
  {i \in 1..Len(underwriters) :
     \E k \in 1..Len(underwriters[i].class) :
       underwriters[i].class[k] = req[r].classRecordId}

\* The entries of Table B whose class field is the request's display name.
TaggedByName(r) ==
  {i \in 1..Len(underwriters) :
     underwriters[i].class = <<req[r].classDisplayName>>}

\* C19: a request queries Table B by reference at most once and by display
\* name at most once, never by name before by reference; it queries by
\* name only when it has no reference or the reference query found no
\* entry; and when the reference query found entries, the recipients are
\* those of the entries tagged by reference alone.
C19_ReferenceBeforeName ==
  \A r \in Requests :
    LET calls == req[r].calls IN
    /\ Count(calls, {"uwByRef"}) <= 1
    /\ Count(calls, {"uwByName"}) <= 1
    /\ \A i, j \in 1..Len(calls) :
         (calls[i] = "uwByName" /\ calls[j] = "uwByRef") => j < i
    /\ (Count(calls, {"uwByName"}) = 1 \/ req[r].pc = "uwByName") =>
         \/ req[r].classRecordId = Null
         \/ /\ Count(calls, {"uwByRef"}) = 1
            /\ TaggedByReference(r) = {}
    /\ (Count(calls, {"uwByRef"}) = 1 /\ TaggedByReference(r) # {}) =>
         /\ Count(calls, {"uwByName"}) = 0
         /\ req[r].pc # "uwByName"
         /\ \A i \in 1..Len(req[r].uwRecords) :
              \E k \in TaggedByReference(r) : req[r].uwRecords[i] = underwriters[k]
         /\ (cfg.OVERRIDE_NOTIFICATION_EMAIL = Null /\ ReachedNotification(r)) =>
              {req[r].notifyList[i] : i \in 1..Len(req[r].notifyList)} =
                UNION {Addresses(underwriters[k]) : k \in TaggedByReference(r)}

\* The reference query found an entry while another entry is tagged with
\* the display name; only the first entry's recipient is notified.
C19_Witness ==
  \E r \in Requests :
    /\ cfg.OVERRIDE_NOTIFICATION_EMAIL = Null
    /\ ReachedNotification(r)
    /\ TaggedByReference(r) # {}
    /\ TaggedByName(r) # {}
    /\ Count(req[r].calls, {"uwByRef"}) = 1
    /\ Count(req[r].calls, {"uwByName"}) = 0
    /\ req[r].notifyList = << <<"b">> >>

\* The Categories whose name equals the text after case folding.
CategoriesNamed(name) ==
  {i \in 1..Len(classes) : Lower(classes[i].Name) = Lower(name)}

\* C20: served one after the other, a request whose class text is id-shaped
\* uses the text as its reference and neither looks a Category up by name
\* nor creates one; a request with any other non-empty text looks up once
\* and holds the id of a Category named like the text, letter case aside;
\* and a Category is created only by a request for whose text none exists,
\* one Category, named as the text, whose id the request then holds.
C20_CategoryResolution ==
  /\ [](\A r \in Requests :
          /\ IsRecordId(req[r].effectiveClass) =>
               /\ Count(req[r].calls, {"classFind", "classCreate"}) = 0
               /\ req[r].classRecordId \in {Null, req[r].effectiveClass}
               /\ Count(req[r].calls, {"classFetch", "findSubmission"}) > 0 =>
                    req[r].classRecordId = req[r].effectiveClass
          /\ (~IsRecordId(req[r].effectiveClass) /\ req[r].classRecordId # Null) =>
               /\ req[r].effectiveClass # <<>>
               /\ Count(req[r].calls, {"classFind"}) = 1
               /\ Count(req[r].calls, {"classCreate"}) <= 1
               /\ \E i \in CategoriesNamed(req[r].effectiveClass) :
                    req[r].classRecordId = ClassIdOf(i))
  /\ [][classes' # classes =>
          \E r \in Requests :
            /\ req[r].pc = "classCreate"
            /\ CategoriesNamed(req[r].effectiveClass) = {}
            /\ classes' = Append(classes, [Name |-> req[r].effectiveClass])
            /\ req'[r].classRecordId = ClassIdOf(Len(classes'))]_vars

\* An earlier request created the Category "k"; a later request typing
\* "k" resolved to it and created nothing.
C20_Witness ==
  \E r \in Requests :
    /\ Len(classes) = 2
    /\ classes[2].Name = <<"k">>
    /\ req[r].effectiveClass = <<"k">>
    /\ req[r].classRecordId = ClassIdOf(2)
    /\ Count(req[r].calls, {"classFind"}) = 1
    /\ Count(req[r].calls, {"classCreate"}) = 0

\* C21: with an API key and no SMTP credentials, a request whose primary
\* send failed made that one send and no other by either transport, and
\* the error its notification step raised is the primary send's.
C21_PrimaryFailureSurfaced ==
  \A r \in Requests :
    (cfg.BREVO_API_KEY /\ ~cfg.SMTP_CREDS /\ BrevoFailedFor(r)) =>
      /\ req[r].pc = "responded"
      /\ req[r].caught = BrevoError
      /\ Count(req[r].calls, {"brevo"}) = 1
      /\ Count(req[r].calls, {"smtp"}) = 0
      /\ req[r].sends = <<>>

\* The primary send of a request failed where no SMTP is configured.
C21_Witness ==
  \E r \in Requests :
    /\ cfg.BREVO_API_KEY
    /\ ~cfg.SMTP_CREDS
    /\ BrevoFailedFor(r)
    /\ req[r].notifyList # <<>>
    /\ req[r].caught = BrevoError

\* The request is past its recipient resolution: its record is written and
\* no query of Table B is pending or failed.
RecipientsResolved(r) ==
  /\ WritesOf(r) # {}
  /\ req[r].pc \notin {"uwByRef", "uwByName", "done"}
  /\ FailedCalls(r) \cap DirectoryQueries = {}

\* C22: a request whose final list is empty has called neither transport
\* and is answered 200 in the step that computed the list; and no request
\* calls a transport while its list is empty.
C22_EmptyListNoSend ==
  \A r \in Requests :
    /\ (RecipientsResolved(r) /\ req[r].notifyList = <<>>) =>
         /\ req[r].pc = "responded"
         /\ req[r].status = 200
         /\ Count(req[r].calls, SendCalls) = 0
         /\ req[r].sends = <<>>
    /\ (Count(req[r].calls, SendCalls) > 0 \/ req[r].pc \in {"brevo", "smtp"}) =>
         req[r].notifyList # <<>>

\* A request with a class queried Table B by reference and by name, found
\* no recipient, and was answered 200 without a send.
C22_Witness ==
  \E r \in Requests :
    /\ RecipientsResolved(r)
    /\ Count(req[r].calls, DirectoryQueries) = 2
    /\ req[r].notifyList = <<>>
    /\ req[r].pc = "responded"
    /\ req[r].status = 200

\* The handler's catch around sendEmails received an error.
NotificationFailedFor(r) ==
  \E i \in 1..Len(req[r].logged) : req[r].logged[i] = "Notification error"

\* C23: served one after the other, a request whose notification failed,
\* by either transport, has written its record before, is answered 200,
\* and the record still has the identity and the attachment it wrote; and
\* no step but a request's create or update changes the submissions table.
C23_NotificationFailureOnlyLogged ==
  /\ [](\A r \in Requests :
          NotificationFailedFor(r) =>
            /\ req[r].pc = "responded"
            /\ req[r].status = 200
            /\ req[r].caught \in {BrevoError, SmtpError}
            /\ WritesOf(r) # {}
            /\ \A w \in WritesOf(r) :
                 LET rec == apps[writeLog[w].id] IN
                 /\ rec.Email = writeLog[w].Email
                 /\ rec.Files[Len(rec.Files)] = writeLog[w].attachment)
  /\ [][apps' # apps => \E r \in Requests : req[r].pc = "write"]_vars

\* A request merged into a stored record, one of its SMTP sends failed, and
\* it was answered 200.
C23_Witness ==
  \E r \in Requests :
    /\ NotificationFailedFor(r)
    /\ req[r].caught = SmtpError
    /\ req[r].status = 200
    /\ \E w \in WritesOf(r) : ~writeLog[w].created

\* Two Categories whose names are equal after case folding.
DuplicateCategories ==
  \E i, j \in 1..Len(classes) :
    i # j /\ Lower(classes[i].Name) = Lower(classes[j].Name)

\* C24: two Categories with names equal case-insensitively exist only
\* after requests overlapped, and then by create steps of requests each of
\* which found no Category of that name; a request creates at most one.
C24_DuplicatesOnlyByOverlap ==
  /\ [](DuplicateCategories => overlapped)
  /\ [](\A r \in Requests : Count(req[r].calls, {"classCreate"}) <= 1)
  /\ [][classes' # classes =>
          \E r \in Requests :
            /\ req[r].pc = "classCreate"
            /\ Count(req[r].calls, {"classFind"}) = 1
            /\ classes' = Append(classes, [Name |-> req[r].effectiveClass])]_vars

\* Two overlapping requests carrying the same new name each created a
\* Category: the Classes table holds two named "k".
C24_Witness ==
  /\ overlapped
  /\ Len(classes) = 3
  /\ classes[2].Name = <<"k">>
  /\ classes[3].Name = <<"k">>

\* C25: under fair scheduling every request that arrived is answered, it
\* is never answered twice, and it has its one answer exactly from the
\* step that responds onwards.
C25_ExactlyOneResponse ==
  \A r \in 1..NumLiveReq :
    /\ [](req[r].responses <= 1)
    /\ [](req[r].responses = 1 <=> req[r].pc \in {"responded", "done"})
    /\ (req[r].pc # "idle") ~> (req[r].responses = 1)

\* A request whose notification failed has its one answer.
C25_Witness ==
  \E r \in Requests :
    /\ NotificationFailedFor(r)
    /\ req[r].responses = 1
    /\ req[r].status = 200

\* C26: a request answered 200 has one successful write of its own in the
\* submissions table, made before the answer; its message says updated
\* when that write was an update and created when it was a create, and
\* the write it issued is of that kind.
C26_SuccessAfterOwnWrite ==
  \A r \in Requests :
    (req[r].pc \in {"responded", "done"} /\ req[r].status = 200) =>
      /\ Cardinality(WritesOf(r)) = 1
      /\ \A w \in WritesOf(r) :
           /\ req[r].message =
                IF writeLog[w].created
                THEN "New record created and notifications sent."
                ELSE "Existing record updated and notifications sent."
           /\ req[r].pc = "responded" =>
                /\ Count(req[r].calls, {"appCreate"}) =
                     (IF writeLog[w].created THEN 1 ELSE 0)
                /\ Count(req[r].calls, {"appUpdate"}) =
                     (IF writeLog[w].created THEN 0 ELSE 1)

\* One request created a record and was told so; the next merged into it
\* and was told it was updated.
C26_Witness ==
  \E p, r \in Requests :
    /\ req[p].pc = "done" /\ req[p].status = 200
    /\ req[p].message = "New record created and notifications sent."
    /\ req[r].pc = "responded" /\ req[r].status = 200
    /\ req[r].message = "Existing record updated and notifications sent."
    /\ Count(req[r].calls, {"appUpdate"}) = 1
====
